---- MODULE Spec2Model ----
(***************************************************************************)
(* Model of the Chirpmaker library (lib/Chirpmaker/Chirpmaker.{h,cpp}):    *)
(* the chirp and phaser engines driving a piezo buzzer through             *)
(* digitalWrite / delayMicroseconds / delay, the fifteen bird profiles,    *)
(* the registry _birds and the dispatchers birdVoice / birdConcert.        *)
(*                                                                         *)
(* A top-level chirp() or phaser() call is stepped one driver call at a    *)
(* time.  A chirp() or phaser() call made by a bird profile is one action  *)
(* whose effect on the driver is computed by ChirpRun / PhaserRun, which   *)
(* fold the same loops.                                                    *)
(*                                                                         *)
(* The frequency generators (linearScale .. atan2PiScale) are operators;   *)
(* a direct call of one is the action ScaleCall.                           *)
(*                                                                         *)
(* double values are modelled as exact rationals (plus NaN and the         *)
(* infinities); a double -> uint32_t conversion whose truncated value is   *)
(* not representable is undefined behaviour and yields any value of        *)
(* UndefU32.                                                               *)
(***************************************************************************)
EXTENDS Integers, Sequences, FiniteSets, TLC

VARIABLES
    birds,      \* Chirpmaker::_birds, the registry: id -> profile
    op,         \* the public call in progress, "idle" between calls
    pc,         \* position inside the call in progress
    eng,        \* frame of the stepped chirp()/phaser() call
    voice,      \* frame of birdVoice(): birdNbr, msPause, the wrapper used
    concert,    \* frame of birdConcert(): i, b, msPause
    prof,       \* frame of the running bird profile: name, next call
    pin,        \* level of the buzzer pin (digitalWrite)
    phase,      \* where the driver stands inside one pulse
    ok,         \* the driver has seen only well-formed pulses so far
    last,       \* the last driver call
    pulses,     \* pulses completed since the engine call began
    sleeps,     \* delay() calls since the engine call began
    tally       \* per-dispatch counters: draws, profiles run, engine calls

vars == << birds, op, pc, eng, voice, concert, prof, pin, phase, ok, last,
           pulses, sleeps, tally >>

(***************************************************************************)
(* Bounds of the model.                                                    *)
(***************************************************************************)
MaxN == 2          \* nSteps, nPeriods, nChirps of a stepped call: 0..MaxN
MaxSweep == 2      \* dutyEnd - dutyStart of a stepped phaser() grid call
MaxUndef == 1      \* outcomes 0..MaxUndef of an undefined conversion
DrawSpan == 1      \* random(lo, hi) yields the DrawSpan lowest and highest values

(***************************************************************************)
(* Program constants.                                                      *)
(***************************************************************************)
NbrBirds == 15
WrapperPause == 20
CuckooTail == 300
Million == 1000000

Sign(x) == IF x > 0 THEN 1 ELSE IF x < 0 THEN -1 ELSE 0

(***************************************************************************)
(* double values.                                                          *)
(***************************************************************************)
Fin(n, d) == IF d > 0 THEN [k |-> "fin", num |-> n, den |-> d]
                      ELSE [k |-> "fin", num |-> -n, den |-> -d]
NaN == [k |-> "nan", num |-> 0, den |-> 1]
Inf(sgn) == [k |-> "inf", num |-> sgn, den |-> 1]

UndefU32 == 0 .. MaxUndef

\* (uint32_t) of the double xn/xd (xd > 0): truncation toward zero, defined
\* when the truncated value is representable, i.e. xn/xd > -1.
ToU32(xn, xd) ==
    IF xn >= 0 THEN {xn \div xd}
    ELSE IF -xn < xd THEN {0}
    ELSE UndefU32

(***************************************************************************)
(* Frequency generators.                                                   *)
(***************************************************************************)
linearScale(stepNbr, fStart, fStop, nSteps) ==
    IF nSteps = 0
    THEN \* df is +-inf or NaN; 0 * inf is NaN
         IF stepNbr = 0 \/ fStop = fStart THEN NaN
         ELSE Inf(Sign(stepNbr) * Sign(fStop - fStart))
    ELSE Fin(fStart * nSteps + stepNbr * (fStop - fStart), nSteps)

(***************************************************************************)
(* The library functions the other generators call.  An angle is counted   *)
(* in tenths of PI, a logarithm in tenths of log(2); values are given to   *)
(* five decimals.  sin(0) = 0, cos(0) = 1, atan(0) = 0 and exp(0) = 1 are  *)
(* exact, as they are in double arithmetic.  The generators are evaluated  *)
(* for nSteps of 1, 2, 5 and 10 and for frequencies in the ratios 1/4,     *)
(* 1/2, 1, 2 and 4, where every angle and every exponent is a whole number *)
(* of tenths.                                                              *)
(***************************************************************************)
\* sin(k * PI / 10) * 10^5 for k = 0 .. 5
SinTable == << 0, 30902, 58779, 80902, 95106, 100000 >>

sin(u) ==
    LET v == u % 20
    IN IF v <= 5 THEN SinTable[v + 1]
       ELSE IF v <= 10 THEN SinTable[11 - v]
       ELSE IF v <= 15 THEN -SinTable[v - 9]
       ELSE -SinTable[21 - v]

cos(u) == sin(u + 5)

\* atan(u * PI / 10) * 10^5 for u = 0 .. 20; atan(PI) is entry 10, atan(TWO_PI)
\* entry 20
AtanTable ==
    << 0, 30440, 56098, 75579, 89864, 100388, 108303, 114402, 119211, 123085,
       126263, 128912, 131151, 133067, 134723, 136169, 137442, 138570, 139577,
       140481, 141297 >>

atan(u) == AtanTable[u + 1]

\* atan(inf) = PI / 2, times 10^5
AtanInf == 157080

\* log(fStop / fStart) in tenths of log(2)
log(fStop, fStart) ==
    CASE fStop = fStart -> 0
      [] fStop = 2 * fStart -> 10
      [] fStop = 4 * fStart -> 20
      [] 2 * fStop = fStart -> -10
      [] 4 * fStop = fStart -> -20

\* 2^(e / 10) * 10^5 for e = 0 .. 20
ExpTable ==
    << 100000, 107177, 114870, 123114, 131951, 141421, 151572, 162450, 174110,
       186607, 200000, 214355, 229740, 246229, 263902, 282843, 303143, 324901,
       348220, 373213, 400000 >>

\* exp of e tenths of log(2), -20 <= e <= 20, as num / den
exp(e) ==
    IF e >= 0 THEN [num |-> ExpTable[e + 1], den |-> 100000]
    ELSE [num |-> ExpTable[e + 21], den |-> 400000]

\* PI / nSteps * stepNbr (turns = 1) and TWO_PI / nSteps * stepNbr (turns = 2),
\* in tenths of PI
Angle(turns, stepNbr, nSteps) == (10 * turns * stepNbr) \div nSteps

\* mutant: k = log(fStart / fStop) / nSteps
chromaticScaleInverseRatio(stepNbr, fStart, fStop, nSteps) ==
    IF nSteps = 0
    THEN IF stepNbr = 0 \/ fStop = fStart THEN NaN
         ELSE IF (fStart > fStop) = (stepNbr > 0) THEN Inf(Sign(fStart))
         ELSE Fin(0, 1)
    ELSE LET k == log(fStart, fStop) \div nSteps
             x == exp(k * stepNbr)
         IN Fin((fStart * x.num + x.den \div 20) \div (x.den \div 10), 10)

\* fNext to the tenth of a hertz
chromaticScale(stepNbr, fStart, fStop, nSteps) ==
    IF nSteps = 0
    THEN \* k is +-inf, or NaN when log(..) = 0; 0 * inf is NaN
         IF stepNbr = 0 \/ fStop = fStart THEN NaN
         ELSE IF (fStop > fStart) = (stepNbr > 0) THEN Inf(Sign(fStart))
         ELSE Fin(0, 1)
    ELSE LET k == log(fStop, fStart) \div nSteps
             x == exp(k * stepNbr)
         IN Fin((fStart * x.num + x.den \div 20) \div (x.den \div 10), 10)

sinePiScale(stepNbr, fStart, fStop, nSteps) ==
    IF nSteps = 0 THEN NaN      \* k = inf; sin(inf) and sin(0 * inf) are NaN
    ELSE LET fa == fStop - fStart
         IN Fin(fStart * 100000 + fa * sin(Angle(1, stepNbr, nSteps)), 100000)

sine2PiScale(stepNbr, fStart, fStop, nSteps) ==
    IF nSteps = 0 THEN NaN
    ELSE LET fm2 == fStart + fStop      \* 2 * fm
             fa2 == fStop - fStart      \* 2 * fa
         IN Fin(fm2 * 100000 + fa2 * sin(Angle(2, stepNbr, nSteps)), 200000)

\* mutant: fm + fa * cos(k * stepNbr)
cosinePiScalePlus(stepNbr, fStart, fStop, nSteps) ==
    IF nSteps = 0 THEN NaN
    ELSE LET fm2 == fStart + fStop
             fa2 == fStop - fStart
         IN Fin(fm2 * 100000 + fa2 * cos(Angle(1, stepNbr, nSteps)), 200000)

cosinePiScale(stepNbr, fStart, fStop, nSteps) ==
    IF nSteps = 0 THEN NaN
    ELSE LET fm2 == fStart + fStop
             fa2 == fStop - fStart
         IN Fin(fm2 * 100000 - fa2 * cos(Angle(1, stepNbr, nSteps)), 200000)

cosine2PiScale(stepNbr, fStart, fStop, nSteps) ==
    IF nSteps = 0 THEN NaN
    ELSE LET fm2 == fStart + fStop
             fa2 == fStop - fStart
         IN Fin(fm2 * 100000 - fa2 * cos(Angle(2, stepNbr, nSteps)), 200000)

\* mutant: k = (fStop - fStart) / (PI / 2), the glide scaled by the limit of
\* atan instead of atan(PI)
atanPiScaleAsymptote(stepNbr, fStart, fStop, nSteps) ==
    IF nSteps = 0
    THEN IF stepNbr = 0 THEN NaN
         ELSE Fin(fStart * AtanInf + (fStop - fStart) * Sign(stepNbr) * AtanInf,
                  AtanInf)
    ELSE Fin(fStart * AtanInf + (fStop - fStart) * atan(Angle(1, stepNbr, nSteps)),
             AtanInf)

\* k = (fStop - fStart) / atan(PI); fNext = fStart + k * atan(PI / nSteps * stepNbr)
atanPiScale(stepNbr, fStart, fStop, nSteps) ==
    IF nSteps = 0
    THEN IF stepNbr = 0 THEN NaN        \* atan(inf * 0)
         ELSE Fin(fStart * atan(10) + (fStop - fStart) * Sign(stepNbr) * AtanInf,
                  atan(10))
    ELSE Fin(fStart * atan(10) + (fStop - fStart) * atan(Angle(1, stepNbr, nSteps)),
             atan(10))

atan2PiScale(stepNbr, fStart, fStop, nSteps) ==
    IF nSteps = 0
    THEN IF stepNbr = 0 THEN NaN
         ELSE Fin(fStart * atan(20) + (fStop - fStart) * Sign(stepNbr) * AtanInf,
                  atan(20))
    ELSE Fin(fStart * atan(20) + (fStop - fStart) * atan(Angle(2, stepNbr, nSteps)),
             atan(20))

Scales ==
    {"linearScale", "chromaticScale", "sinePiScale", "sine2PiScale",
     "cosinePiScale", "cosine2PiScale", "atanPiScale", "atan2PiScale"}

fgen(scale, stepNbr, fStart, fStop, nSteps) ==
    CASE scale = "linearScale" -> linearScale(stepNbr, fStart, fStop, nSteps)
      [] scale = "chromaticScale" -> chromaticScale(stepNbr, fStart, fStop, nSteps)
      [] scale = "sinePiScale" -> sinePiScale(stepNbr, fStart, fStop, nSteps)
      [] scale = "sine2PiScale" -> sine2PiScale(stepNbr, fStart, fStop, nSteps)
      [] scale = "cosinePiScale" -> cosinePiScale(stepNbr, fStart, fStop, nSteps)
      [] scale = "cosine2PiScale" -> cosine2PiScale(stepNbr, fStart, fStop, nSteps)
      [] scale = "atanPiScale" -> atanPiScale(stepNbr, fStart, fStop, nSteps)
      [] scale = "atan2PiScale" -> atan2PiScale(stepNbr, fStart, fStop, nSteps)

(***************************************************************************)
(* chirp(): p = 1000000.0 / fNext; tOn = p * duty / 100.0; tOff = p - tOn. *)
(* The set of (tOn, tOff) the two conversions can produce.                 *)
(***************************************************************************)
\* mutant: p * (duty / 100), the division done in int
ChirpTOnIntegerDuty(f, duty) ==
    LET q == IF duty >= 0 THEN duty \div 100 ELSE -((-duty) \div 100)
    IN IF f.k = "fin" /\ f.num > 0 THEN ToU32(Million * f.den * q, f.num)
       ELSE UndefU32

ChirpTOn(f, duty) ==
    CASE f.k = "nan" -> UndefU32
      [] f.k = "inf" -> {0}
      [] f.k = "fin" /\ f.num = 0 -> UndefU32     \* p = inf: inf or NaN
      [] f.k = "fin" /\ f.num > 0 -> ToU32(10000 * f.den * duty, f.num)
      [] f.k = "fin" /\ f.num < 0 -> ToU32(-10000 * f.den * duty, -f.num)

\* mutant: p - tOn rounded to the nearest integer instead of truncated
ChirpTOffRounded(f, tOn) ==
    IF f.k = "fin" /\ f.num > 0
    THEN ToU32(2 * (Million * f.den - tOn * f.num) + f.num, 2 * f.num)
    ELSE UndefU32

ChirpTOff(f, tOn) ==
    CASE f.k = "nan" -> UndefU32
      [] f.k = "inf" -> ToU32(-tOn, 1)
      [] f.k = "fin" /\ f.num = 0 -> UndefU32     \* inf - tOn = inf
      [] f.k = "fin" /\ f.num > 0 -> ToU32(Million * f.den - tOn * f.num, f.num)
      [] f.k = "fin" /\ f.num < 0 -> ToU32(-Million * f.den + tOn * f.num, -f.num)

ChirpDurations(f, duty) ==
    UNION { { <<a, b>> : b \in ChirpTOff(f, a) } : a \in ChirpTOn(f, duty) }

(***************************************************************************)
(* phaser(): uint32_t p = 1000000 / freq; tOn = p * d / 100; tOff = p - tOn*)
(* in 32-bit unsigned arithmetic.  The model's inputs keep p * d below     *)
(* 2^31 and d within 0..100, so no product or difference wraps.            *)
(* The integer division by zero of freq = 0 is undefined: the call traps,  *)
(* or goes on with any p.                                                  *)
(***************************************************************************)
PhaserPeriod(freq) == IF freq = 0 THEN UndefU32 ELSE {Million \div freq}
\* mutant: p / 100 * d, the division done first
PhaserTOnDivideFirst(p, d) == (p \div 100) * d

PhaserTOn(p, d) == (p * d) \div 100
PhaserTOff(p, tOn) == p - tOn

(***************************************************************************)
(* Inputs of the stepped engine calls.                                     *)
(***************************************************************************)
\* direct calls of the frequency generators: stepNbr within 0 .. nSteps, and
\* the steps 0 and 1 of nSteps = 0
ScaleFreqs == {1000, 2000, 4000}
ScaleSteps == {0, 1, 2, 5, 10}
ScaleArgs ==
    { a \in [scale : Scales, stepNbr : 0 .. 10, fStart : ScaleFreqs,
             fStop : ScaleFreqs, nSteps : ScaleSteps] :
        a.stepNbr <= a.nSteps \/ (a.nSteps = 0 /\ a.stepNbr = 1) }

Freqs == {-3000, 0, 3000, 6000}
Duties == {-1, 0, 1, 30, 50, 99, 100, 101}
Pauses == {0, 20}
Counts == 0 .. MaxN

ChirpGrid ==
    [fStart : Freqs, fStop : Freqs, nSteps : Counts, nPeriods : Counts,
     nChirps : Counts, scale : {"linearScale"}, duty : Duties, msPause : Pauses]

\* the sweep chirp(1000.0, 4000.0, 10, 1, 1, chromaticScale, 50, 0)
ChirpScenario ==
    [fStart |-> 1000, fStop |-> 4000, nSteps |-> 10, nPeriods |-> 1,
     nChirps |-> 1, scale |-> "chromaticScale", duty |-> 50, msPause |-> 0]

\* chromatic sweeps of ten steps, the scenario among them
ChirpSweeps ==
    [fStart : ScaleFreqs, fStop : ScaleFreqs, nSteps : {10}, nPeriods : {1},
     nChirps : {1}, scale : {"chromaticScale"}, duty : {50}, msPause : {0}]

\* calls with nSteps = 0, for every generator
ChirpSingle ==
    [fStart : {1000, 4000}, fStop : {1000, 4000}, nSteps : {0}, nPeriods : {1, 2},
     nChirps : {1}, scale : Scales, duty : {50}, msPause : {0}]

ChirpArgs == ChirpGrid \cup ChirpSweeps \cup ChirpSingle

\* phaser() grid calls: short sweeps at the low end, the middle and the high
\* end of 0..100, dutyEnd one below dutyStart included; and the full sweeps
\* 0..100, among them phaser(1000, 5, 0, 100, 1, 0).
PhaserFreqs == {0, 1, 1000, 3000}
PhaserGrid ==
    { a \in [freq : PhaserFreqs, nPeriods : Counts, dutyStart : {0, 50, 98},
             dutyEnd : -1 .. 100, nChirps : Counts, msPause : Pauses] :
        /\ a.dutyEnd >= a.dutyStart - 1
        /\ a.dutyEnd <= a.dutyStart + MaxSweep }
PhaserFull ==
    [freq : PhaserFreqs \ {0}, nPeriods : {5}, dutyStart : {0}, dutyEnd : {100},
     nChirps : {1}, msPause : {0}]
PhaserArgs == PhaserGrid \cup PhaserFull

NoArgs == [none |-> TRUE]
NoEng == [fn |-> "none", a |-> NoArgs, n |-> 0, s |-> 0, k |-> 0,
          p |-> 0, tOn |-> 0, tOff |-> 0, fNext |-> NaN]
NoCall == [call |-> "none", arg |-> 0, by |-> "none"]
NoVoice == [birdNbr |-> 0, msPause |-> 0, via |-> "none"]
NoConcert == [i |-> 0, b |-> 0, msPause |-> 0]
NoProf == [name |-> "none", idx |-> 0, from |-> "none"]
NoTally == [draws |-> 0, runs |-> 0, calls |-> 0, extra |-> 0, pauses |-> 0]

(***************************************************************************)
(* The registry the constructor fills.                                     *)
(***************************************************************************)
Registry ==
    [id \in 0 .. NbrBirds - 1 |->
        CASE id = 0 -> "_bird0"   [] id = 1 -> "_bird1"   [] id = 2 -> "_bird2"
          [] id = 3 -> "_bird3"   [] id = 4 -> "_bird4"   [] id = 5 -> "_bird5"
          [] id = 6 -> "_bird6"   [] id = 7 -> "_bird7"   [] id = 8 -> "_bird8"
          [] id = 9 -> "_bird9"   [] id = 10 -> "_bird10" [] id = 11 -> "_cuckoo"
          [] id = 12 -> "_raven"  [] id = 13 -> "_chaffinch"
          [] id = 14 -> "_blackbird"]

Init ==
    /\ birds = Registry
    /\ op = "idle" /\ pc = "idle"
    /\ eng = NoEng /\ voice = NoVoice /\ concert = NoConcert /\ prof = NoProf
    /\ pin = FALSE /\ phase = "idle" /\ ok = TRUE /\ last = NoCall
    /\ pulses = 0 /\ sleeps = 0 /\ tally = NoTally

(***************************************************************************)
(* The driver: digitalWrite, delayMicroseconds, delay.  phase follows one  *)
(* pulse: idle -> high -> on -> low -> idle; ok records that every call    *)
(* so far came at its place in the pulse                                   *)
(* digitalWrite(HIGH), delayMicroseconds, digitalWrite(LOW),               *)
(* delayMicroseconds, and every delay() between pulses with the pin low.   *)
(***************************************************************************)
digitalWriteHigh(by) ==
    /\ pin' = TRUE
    /\ phase' = "high"
    /\ ok' = (ok /\ phase = "idle")
    /\ last' = [call |-> "high", arg |-> 1, by |-> by]
    /\ UNCHANGED << pulses, sleeps >>

digitalWriteLow(by) ==
    /\ pin' = FALSE
    /\ phase' = "low"
    /\ ok' = (ok /\ phase = "on")
    /\ last' = [call |-> "low", arg |-> 0, by |-> by]
    /\ UNCHANGED << pulses, sleeps >>

delayMicroseconds(us, by) ==
    /\ phase' = (CASE phase = "high" -> "on" [] phase = "low" -> "idle"
                   [] OTHER -> phase)
    /\ ok' = (ok /\ phase \in {"high", "low"})
    /\ pulses' = (IF phase = "low" THEN pulses + 1 ELSE pulses)
    /\ last' = [call |-> "us", arg |-> us, by |-> by]
    /\ UNCHANGED << pin, sleeps >>

delay(ms, by) ==
    /\ ok' = (ok /\ phase = "idle" /\ ~pin)
    /\ sleeps' = sleeps + 1
    /\ last' = [call |-> "ms", arg |-> ms, by |-> by]
    /\ UNCHANGED << pin, phase, pulses >>

NoDriverCall == UNCHANGED << pin, phase, ok, last, pulses, sleeps >>

(***************************************************************************)
(* random(): the Arduino core's random(howsmall, howbig) returns howsmall  *)
(* when howsmall >= howbig and a value of howsmall .. howbig - 1           *)
(* otherwise; random(howbig) is a value of 0 .. howbig - 1.  Of a range    *)
(* the model draws the DrawSpan lowest and the DrawSpan highest values.    *)
(***************************************************************************)
random(howsmall, howbig) ==
    IF howsmall >= howbig THEN {howsmall}
    ELSE { x \in howsmall .. howbig - 1 :
             x < howsmall + DrawSpan \/ x >= howbig - DrawSpan }

randomMax(howbig) == IF howbig <= 0 THEN {0} ELSE 0 .. howbig - 1

(***************************************************************************)
(* The bird profiles as the calls they make, in order.  An argument is a   *)
(* literal L(v), a draw R(lo, hi) = random(lo, hi), or the float Q(n, d).  *)
(***************************************************************************)
L(v) == [lo |-> v, hi |-> v, rnd |-> FALSE, den |-> 1]
R(lo, hi) == [lo |-> lo, hi |-> hi, rnd |-> TRUE, den |-> 1]
Q(n, d) == [lo |-> n, hi |-> n, rnd |-> FALSE, den |-> d]

chirp(fStart, fStop, nSteps, nPeriods, nChirps, scale, duty, msPause) ==
    [fn |-> "chirp", fStart |-> fStart, fStop |-> fStop, nSteps |-> nSteps,
     nPeriods |-> nPeriods, nChirps |-> nChirps, scale |-> scale,
     duty |-> duty, msPause |-> msPause]

phaser(freq, nPeriods, dutyStart, dutyEnd, nChirps, msPause) ==
    [fn |-> "phaser", freq |-> freq, nPeriods |-> nPeriods,
     dutyStart |-> dutyStart, dutyEnd |-> dutyEnd, nChirps |-> nChirps,
     msPause |-> msPause]

pause(ms) == [fn |-> "delay", msPause |-> ms]

RECURSIVE Times(_, _, _)
\* for (int i = from; i < to; i++) body
Times(body, from, to) ==
    IF from < to THEN body \o Times(body, from + 1, to) ELSE << >>

bird0 ==
    << chirp(R(1200, 1900), R(4300, 4500), R(10, 27), R(1, 5), L(5),
             "chromaticScale", L(50), R(59, 199)),
       chirp(R(2000, 2050), R(3200, 3400), R(5, 30), R(2, 15), R(4, 10),
             "atanPiScale", L(50), L(20)),
       chirp(L(1500), L(4500), R(50, 100), R(1, 13), R(1, 5),
             "sine2PiScale", L(50), L(100)) >>

bird1 ==
    << chirp(R(4200, 4400), R(2800, 2500), L(100), R(1, 3), R(3, 9),
             "chromaticScale", L(50), R(25, 75)) >>

bird2 ==
    << chirp(R(3500, 3900), R(5600, 5900), R(3, 7), R(5, 10), L(1),
             "sine2PiScale", L(50), R(50, 100)),
       chirp(R(5600, 5900), R(3500, 3900), R(6, 15), R(3, 7), L(1),
             "cosine2PiScale", L(50), R(50, 100)) >>

bird3 ==
    << chirp(R(1280, 1300), R(1310, 1620), L(10), R(4, 8), R(2, 9),
             "linearScale", L(50), R(100, 200)) >>

bird4 ==
    << chirp(L(4000), L(4800), L(10), L(4), R(10, 15), "atan2PiScale", L(50), L(20)),
       chirp(L(3500), L(4300), L(15), L(10), L(1), "atanPiScale", L(50), L(20)),
       chirp(L(3500), L(3000), L(25), L(10), L(1), "sinePiScale", L(50), R(75, 150)) >>

bird5 ==
    << chirp(R(4404, 4484), R(4380, 4420), L(20), R(1, 4), R(1, 7),
             "linearScale", L(50), L(250)) >>

bird6 ==
    << chirp(R(1000, 1050), R(900, 1200), L(20), R(1, 5), R(10, 15),
             "chromaticScale", L(50), R(150, 250)) >>

bird7 ==
    << chirp(L(2600), L(4400), L(10), L(1), R(5, 9), "chromaticScale", L(50),
             R(20, 150)) >>

bird8 ==
    << chirp(L(1320), L(3880), L(5), L(10), L(5), "sine2PiScale", L(50), L(100)) >>

bird9 ==
    << phaser(R(3500, 3540), R(6, 12), L(5), L(50), R(3, 15), L(0)),
       phaser(R(1660, 1800), R(3, 10), L(5), L(30), R(6, 13), R(100, 300)) >>

bird10 ==
    << chirp(L(1440), L(1880), L(20), L(10), R(1, 9), "atanPiScale", L(5), L(10)),
       chirp(L(1880), L(1440), L(20), L(10), R(1, 9), "atanPiScale", L(50), L(30)) >>

\* mutant: for (int i = 0; i < 5; i++)
cuckooProfileFromZero ==
    Times(<< chirp(L(667), L(667), L(1), L(46), L(1), "linearScale", L(50), L(200)),
             chirp(Q(667000, 1222), Q(667000, 1222), L(1), L(52), L(1),
                   "linearScale", L(50), L(830)) >>, 0, 5)
    \o << pause(L(CuckooTail)) >>

\* third = 1.222, cuc = 667, koo = cuc / third
cuckooProfile ==
    Times(<< chirp(L(667), L(667), L(1), L(46), L(1), "linearScale", L(50), L(200)),
             chirp(Q(667000, 1222), Q(667000, 1222), L(1), L(52), L(1),
                   "linearScale", L(50), L(830)) >>, 1, 5)
    \o << pause(L(CuckooTail)) >>

ravenProfile ==
    << chirp(L(75), L(65), L(8), L(4), R(2, 6), "atanPiScale", L(20), L(550)) >>

chaffinchProfile ==
    << chirp(L(4000), L(5000), L(10), R(15, 30), R(1, 9), "chromaticScale",
             L(50), R(10, 100)),
       chirp(L(5000), L(4000), L(10), R(15, 50), R(1, 9), "chromaticScale",
             L(15), R(10, 30)) >>

blackbirdProfile ==
    << chirp(L(900), L(2000), R(10, 50), L(13), R(1, 4), "atanPiScale", L(50), L(80)),
       chirp(L(2400), L(1000), R(15, 65), L(8), R(1, 3), "sine2PiScale", L(50), L(80)),
       chirp(R(3000, 2000), R(1500, 1200), R(75, 120), R(2, 9), R(1, 4),
             "cosine2PiScale", L(50), L(80)) >>

Script(name) ==
    CASE name = "_bird0" -> bird0   [] name = "_bird1" -> bird1
      [] name = "_bird2" -> bird2   [] name = "_bird3" -> bird3
      [] name = "_bird4" -> bird4   [] name = "_bird5" -> bird5
      [] name = "_bird6" -> bird6   [] name = "_bird7" -> bird7
      [] name = "_bird8" -> bird8   [] name = "_bird9" -> bird9
      [] name = "_bird10" -> bird10 [] name = "_cuckoo" -> cuckooProfile
      [] name = "_raven" -> ravenProfile
      [] name = "_chaffinch" -> chaffinchProfile
      [] name = "_blackbird" -> blackbirdProfile

\* the values an argument can take when the call is made
Arg(x) == IF x.rnd THEN random(x.lo, x.hi) ELSE {x.lo}

(***************************************************************************)
(* A whole chirp() or phaser() call, as a profile makes it: the pulses and *)
(* the delay() calls of its loops.  Every pulse is the four driver calls   *)
(* of buz and leaves the pin low; the last driver call of a call with      *)
(* nChirps >= 1 is its delay(msPause).                                     *)
(***************************************************************************)
\* the loop for (x = from; x <= to; x++) runs its body once per value of
\* from .. to
Trips(from, to) == Cardinality(from .. to)

\* for (s = from; s <= to; s++) for (n = 0; n < nPeriods; n++) buz(...)
SweepPulses(from, to, nPeriods) == Trips(from, to) * Trips(0, nPeriods - 1)

\* for (n = 0; n < nChirps; n++) { sweep from..to; delay(msPause); }
EngineRun(nChirps, from, to, nPeriods) ==
    [pulses |-> Trips(0, nChirps - 1) * SweepPulses(from, to, nPeriods),
     sleeps |-> Trips(0, nChirps - 1)]

ChirpRun(nSteps, nPeriods, nChirps) == EngineRun(nChirps, 0, nSteps, nPeriods)

PhaserRun(nPeriods, dutyStart, dutyEnd, nChirps) ==
    EngineRun(nChirps, dutyStart, dutyEnd, nPeriods)

\* the runs a call of a script can make, over the draws of its arguments
CallRuns(c) ==
    CASE c.fn = "chirp" ->
           { [run |-> ChirpRun(s, k, n), ms |-> m] :
               s \in Arg(c.nSteps), k \in Arg(c.nPeriods), n \in Arg(c.nChirps),
               m \in Arg(c.msPause) }
      [] c.fn = "phaser" ->
           { [run |-> PhaserRun(k, ds, de, n), ms |-> m] :
               k \in Arg(c.nPeriods), ds \in Arg(c.dutyStart),
               de \in Arg(c.dutyEnd), n \in Arg(c.nChirps), m \in Arg(c.msPause) }
      [] c.fn = "delay" ->
           { [run |-> [pulses |-> 0, sleeps |-> 1], ms |-> m] : m \in Arg(c.msPause) }

(***************************************************************************)
(* chirp(), stepped.                                                       *)
(***************************************************************************)
\* the call: chirp(fStart, fStop, nSteps, nPeriods, nChirps, fgen, duty, msPause)
ChirpCall ==
    /\ op = "idle"
    /\ \E a \in ChirpArgs :
         eng' = [NoEng EXCEPT !.fn = "chirp", !.a = a]
    /\ op' = "chirp" /\ pc' = "rep"
    /\ pulses' = 0 /\ sleeps' = 0 /\ last' = NoCall
    /\ UNCHANGED << birds, voice, concert, prof, pin, phase, ok, tally >>

\* for (int n = 0; n < nChirps; n++)
ChirpRep ==
    /\ op = "chirp" /\ pc = "rep"
    /\ IF eng.n < eng.a.nChirps
       THEN eng' = [eng EXCEPT !.s = 0] /\ pc' = "step"
       ELSE eng' = eng /\ pc' = "ret"
    /\ NoDriverCall
    /\ UNCHANGED << birds, op, voice, concert, prof, tally >>

\* mutant: for (int s = 0; s < nSteps; s++)
ChirpStepExclusive ==
    /\ op = "chirp" /\ pc = "step"
    /\ IF eng.s < eng.a.nSteps
       THEN /\ \E d \in ChirpDurations(
                    fgen(eng.a.scale, eng.s, eng.a.fStart, eng.a.fStop, eng.a.nSteps),
                    eng.a.duty) :
                 eng' = [eng EXCEPT !.tOn = d[1], !.tOff = d[2], !.k = 0]
            /\ pc' = "buz"
       ELSE eng' = eng /\ pc' = "delay"
    /\ NoDriverCall
    /\ UNCHANGED << birds, op, voice, concert, prof, tally >>

\* for (int s = 0; s <= nSteps; s++) { fNext, p, tOn, tOff ...
ChirpStep ==
    /\ op = "chirp" /\ pc = "step"
    /\ IF eng.s <= eng.a.nSteps
       THEN /\ \E d \in ChirpDurations(
                    fgen(eng.a.scale, eng.s, eng.a.fStart, eng.a.fStop, eng.a.nSteps),
                    eng.a.duty) :
                 eng' = [eng EXCEPT !.tOn = d[1], !.tOff = d[2], !.k = 0]
            /\ pc' = "buz"
       ELSE eng' = eng /\ pc' = "delay"
    /\ NoDriverCall
    /\ UNCHANGED << birds, op, voice, concert, prof, tally >>

\* delay(msPause) after the steps of one repetition, then n++
ChirpDelay ==
    /\ op = "chirp" /\ pc = "delay"
    /\ delay(eng.a.msPause, "chirp")
    /\ eng' = [eng EXCEPT !.n = @ + 1]
    /\ pc' = "rep"
    /\ UNCHANGED << birds, op, voice, concert, prof, tally >>

(***************************************************************************)
(* phaser(), stepped.  eng.s holds the duty value d.                       *)
(***************************************************************************)
PhaserCall ==
    /\ op = "idle"
    /\ \E a \in PhaserArgs :
         \/ /\ \E p \in PhaserPeriod(a.freq) :
                 eng' = [NoEng EXCEPT !.fn = "phaser", !.a = a, !.p = p]
            /\ op' = "phaser" /\ pc' = "rep"
         \/ /\ a.freq = 0
            /\ eng' = NoEng
            /\ op' = "fault" /\ pc' = "fault"
    /\ pulses' = 0 /\ sleeps' = 0 /\ last' = NoCall
    /\ UNCHANGED << birds, voice, concert, prof, pin, phase, ok, tally >>

\* for (int n = 0; n < nChirps; n++)
PhaserRep ==
    /\ op = "phaser" /\ pc = "rep"
    /\ IF eng.n < eng.a.nChirps
       THEN eng' = [eng EXCEPT !.s = eng.a.dutyStart] /\ pc' = "step"
       ELSE eng' = eng /\ pc' = "ret"
    /\ NoDriverCall
    /\ UNCHANGED << birds, op, voice, concert, prof, tally >>

\* mutant: for (int d = dutyStart; d < dutyEnd; d++)
PhaserStepExclusive ==
    /\ op = "phaser" /\ pc = "step"
    /\ IF eng.s < eng.a.dutyEnd
       THEN /\ eng' = [eng EXCEPT !.tOn = PhaserTOn(eng.p, eng.s),
                                  !.tOff = PhaserTOff(eng.p, PhaserTOn(eng.p, eng.s)),
                                  !.k = 0]
            /\ pc' = "buz"
       ELSE eng' = eng /\ pc' = "delay"
    /\ NoDriverCall
    /\ UNCHANGED << birds, op, voice, concert, prof, tally >>

\* for (int d = dutyStart; d <= dutyEnd; d++) { tOn, tOff ...
PhaserStep ==
    /\ op = "phaser" /\ pc = "step"
    /\ IF eng.s <= eng.a.dutyEnd
       THEN /\ eng' = [eng EXCEPT !.tOn = PhaserTOn(eng.p, eng.s),
                                  !.tOff = PhaserTOff(eng.p, PhaserTOn(eng.p, eng.s)),
                                  !.k = 0]
            /\ pc' = "buz"
       ELSE eng' = eng /\ pc' = "delay"
    /\ NoDriverCall
    /\ UNCHANGED << birds, op, voice, concert, prof, tally >>

PhaserDelay ==
    /\ op = "phaser" /\ pc = "delay"
    /\ delay(eng.a.msPause, "phaser")
    /\ eng' = [eng EXCEPT !.n = @ + 1]
    /\ pc' = "rep"
    /\ UNCHANGED << birds, op, voice, concert, prof, tally >>

(***************************************************************************)
(* for (int n = 0; n < nPeriods; n++) buz(_pinBuzzer, tOn, tOff), and the  *)
(* four driver calls of the buz lambda (the same text in chirp and phaser).*)
(***************************************************************************)
BuzLoop ==
    /\ op \in {"chirp", "phaser"} /\ pc = "buz"
    /\ IF eng.k < eng.a.nPeriods
       THEN eng' = eng /\ pc' = "high"
       ELSE eng' = [eng EXCEPT !.s = @ + 1] /\ pc' = "step"
    /\ NoDriverCall
    /\ UNCHANGED << birds, op, voice, concert, prof, tally >>

BuzHigh ==
    /\ op \in {"chirp", "phaser"} /\ pc = "high"
    /\ digitalWriteHigh(op)
    /\ pc' = "usOn"
    /\ UNCHANGED << birds, op, eng, voice, concert, prof, tally >>

BuzSleepOn ==
    /\ op \in {"chirp", "phaser"} /\ pc = "usOn"
    /\ delayMicroseconds(eng.tOn, op)
    /\ pc' = "low"
    /\ UNCHANGED << birds, op, eng, voice, concert, prof, tally >>

\* mutant: buz without its digitalWrite(pin, LOW)
BuzLowMissing ==
    /\ op \in {"chirp", "phaser"} /\ pc = "low"
    /\ pc' = "usOff"
    /\ NoDriverCall
    /\ UNCHANGED << birds, op, eng, voice, concert, prof, tally >>

BuzLow ==
    /\ op \in {"chirp", "phaser"} /\ pc = "low"
    /\ digitalWriteLow(op)
    /\ pc' = "usOff"
    /\ UNCHANGED << birds, op, eng, voice, concert, prof, tally >>

BuzSleepOff ==
    /\ op \in {"chirp", "phaser"} /\ pc = "usOff"
    /\ delayMicroseconds(eng.tOff, op)
    /\ eng' = [eng EXCEPT !.k = @ + 1]
    /\ pc' = "buz"
    /\ UNCHANGED << birds, op, voice, concert, prof, tally >>

\* the engine call returns; its frame is gone, and the record of the call's
\* driver calls is closed
EngineReturn ==
    /\ op \in {"chirp", "phaser"} /\ pc = "ret"
    /\ op' = "idle" /\ pc' = "idle"
    /\ eng' = NoEng
    /\ pulses' = 0 /\ sleeps' = 0 /\ last' = NoCall
    /\ UNCHANGED << birds, voice, concert, prof, pin, phase, ok, tally >>

(***************************************************************************)
(* A bird profile, run by birdVoice or birdConcert: one action per call    *)
(* the profile makes.                                                      *)
(***************************************************************************)
ProfileCall ==
    /\ op \in {"birdVoice", "birdConcert"} /\ pc = "profile"
    /\ prof.idx <= Len(Script(prof.name))
    /\ LET c == Script(prof.name)[prof.idx]
       IN \E r \in CallRuns(c) :
            /\ pulses' = r.run.pulses
            /\ sleeps' = r.run.sleeps
            /\ last' = IF r.run.sleeps > 0
                       THEN [call |-> "ms", arg |-> r.ms,
                             by |-> IF c.fn = "delay" THEN "profile" ELSE c.fn]
                       ELSE last
            /\ ok' = (ok /\ phase = "idle" /\ ~pin)
            /\ tally' = IF c.fn = "delay"
                        THEN [tally EXCEPT !.extra = @ + 1]
                        ELSE [tally EXCEPT !.calls = @ + 1]
    /\ prof' = [prof EXCEPT !.idx = @ + 1]
    /\ UNCHANGED << birds, op, pc, eng, voice, concert, pin, phase >>

\* the profile returns to its caller
ProfileReturn ==
    /\ op \in {"birdVoice", "birdConcert"} /\ pc = "profile"
    /\ prof.idx > Len(Script(prof.name))
    /\ prof' = [prof EXCEPT !.idx = 0]
    /\ IF op = "birdVoice"
       THEN pc' = "voiceDelay" /\ concert' = concert
       ELSE pc' = "iter" /\ concert' = [concert EXCEPT !.i = @ + 1]
    /\ NoDriverCall
    /\ UNCHANGED << birds, op, eng, voice, tally >>

(***************************************************************************)
(* birdVoice(birdNbr, msPause) and its wrappers.                           *)
(***************************************************************************)
VoiceIds == (0 .. NbrBirds) \cup {255}

BirdVoiceCall ==
    /\ op = "idle"
    /\ \E id \in VoiceIds, ms \in Pauses :
         voice' = [birdNbr |-> id, msPause |-> ms, via |-> "birdVoice"]
    /\ op' = "birdVoice" /\ pc' = "lookup"
    /\ pulses' = 0 /\ sleeps' = 0 /\ last' = NoCall /\ tally' = NoTally
    /\ prof' = NoProf
    /\ UNCHANGED << birds, eng, concert, pin, phase, ok >>

Wrappers == {"cuckoo", "raven", "chaffinch", "blackbird"}

WrapperBird(w) ==
    CASE w = "cuckoo" -> 11 [] w = "raven" -> 12 [] w = "chaffinch" -> 13
      [] w = "blackbird" -> 14

\* cuckoo(), raven(), chaffinch(), blackbird()
WrapperCall ==
    /\ op = "idle"
    /\ \E w \in Wrappers :
         voice' = [birdNbr |-> WrapperBird(w), msPause |-> WrapperPause, via |-> w]
    /\ op' = "birdVoice" /\ pc' = "lookup"
    /\ pulses' = 0 /\ sleeps' = 0 /\ last' = NoCall /\ tally' = NoTally
    /\ prof' = NoProf
    /\ UNCHANGED << birds, eng, concert, pin, phase, ok >>

\* Bird p = _birds[birdNbr]; (this->*p)();
\* _birds has NbrBirds elements and birdNbr is not checked: beyond the array
\* the read is undefined, and the call through what was read traps or runs
\* whatever code the value designates, a profile among the rest.
\* mutant: _birds[birdNbr + 1]
VoiceTargetsOffByOne(birdNbr) ==
    IF birdNbr + 1 \in DOMAIN birds THEN {birds[birdNbr + 1]}
    ELSE {"trap"} \cup { birds[i] : i \in DOMAIN birds }

VoiceTargets(birdNbr) ==
    IF birdNbr \in DOMAIN birds THEN {birds[birdNbr]}
    ELSE {"trap"} \cup { birds[i] : i \in DOMAIN birds }

VoiceLookup ==
    /\ op = "birdVoice" /\ pc = "lookup"
    /\ \E t \in VoiceTargets(voice.birdNbr) :
         IF t = "trap"
         THEN /\ op' = "fault" /\ pc' = "fault"
              /\ prof' = prof /\ tally' = tally
         ELSE /\ op' = op /\ pc' = "profile"
              /\ prof' = [name |-> t, idx |-> 1, from |-> "birdVoice"]
              /\ tally' = [tally EXCEPT !.runs = @ + 1, !.calls = 0, !.extra = 0]
    /\ NoDriverCall
    /\ UNCHANGED << birds, eng, voice, concert >>

\* delay(msPause)
VoiceDelay ==
    /\ op = "birdVoice" /\ pc = "voiceDelay"
    /\ delay(voice.msPause, "birdVoice")
    /\ tally' = [tally EXCEPT !.pauses = @ + 1]
    /\ pc' = "ret"
    /\ UNCHANGED << birds, op, eng, voice, concert, prof >>

(***************************************************************************)
(* birdConcert(msPause).                                                   *)
(***************************************************************************)
BirdConcertCall ==
    /\ op = "idle"
    /\ \E ms \in Pauses : concert' = [i |-> 0, b |-> 0, msPause |-> ms]
    /\ op' = "birdConcert" /\ pc' = "iter"
    /\ pulses' = 0 /\ sleeps' = 0 /\ last' = NoCall /\ tally' = NoTally
    /\ prof' = NoProf
    /\ UNCHANGED << birds, eng, voice, pin, phase, ok >>

\* mutant: for (int i = 0; i < random(5, _nbrBirds); i++), the loop header
\* the source keeps in a comment
ConcertIterRandomCount ==
    /\ op = "birdConcert" /\ pc = "iter"
    /\ \E bound \in random(5, NbrBirds) :
         IF concert.i < bound
         THEN \E b \in randomMax(NbrBirds) :
                /\ concert' = [concert EXCEPT !.b = b]
                /\ prof' = [name |-> birds[b], idx |-> 1, from |-> "birdConcert"]
                /\ tally' = [tally EXCEPT !.draws = @ + 1, !.runs = @ + 1,
                                          !.calls = 0, !.extra = 0]
                /\ pc' = "profile"
         ELSE /\ pc' = "concertDelay"
              /\ UNCHANGED << concert, prof, tally >>
    /\ NoDriverCall
    /\ UNCHANGED << birds, op, eng, voice >>

\* for (int i = 0; i < _nbrBirds; i++) { int b = random(_nbrBirds);
\*   Bird p = _birds[b]; (this->*p)(); }
ConcertIter ==
    /\ op = "birdConcert" /\ pc = "iter"
    /\ IF concert.i < NbrBirds
       THEN \E b \in randomMax(NbrBirds) :
              /\ concert' = [concert EXCEPT !.b = b]
              /\ prof' = [name |-> birds[b], idx |-> 1, from |-> "birdConcert"]
              /\ tally' = [tally EXCEPT !.draws = @ + 1, !.runs = @ + 1,
                                        !.calls = 0, !.extra = 0]
              /\ pc' = "profile"
       ELSE /\ pc' = "concertDelay"
            /\ UNCHANGED << concert, prof, tally >>
    /\ NoDriverCall
    /\ UNCHANGED << birds, op, eng, voice >>

\* delay(msPause)
ConcertDelay ==
    /\ op = "birdConcert" /\ pc = "concertDelay"
    /\ delay(concert.msPause, "birdConcert")
    /\ tally' = [tally EXCEPT !.pauses = @ + 1]
    /\ pc' = "ret"
    /\ UNCHANGED << birds, op, eng, voice, concert, prof >>

\* birdVoice or birdConcert returns; its frames are gone, and the record of
\* the call's driver calls is closed
DispatchReturn ==
    /\ op \in {"birdVoice", "birdConcert"} /\ pc = "ret"
    /\ op' = "idle" /\ pc' = "idle"
    /\ voice' = NoVoice /\ concert' = NoConcert /\ prof' = NoProf
    /\ pulses' = 0 /\ sleeps' = 0 /\ last' = NoCall /\ tally' = NoTally
    /\ UNCHANGED << birds, eng, pin, phase, ok >>

(***************************************************************************)
(* A frequency generator called on its own: fNext is what it returns.      *)
(***************************************************************************)
ScaleCall ==
    /\ op = "idle"
    /\ \E a \in ScaleArgs :
         eng' = [NoEng EXCEPT !.fn = a.scale, !.a = a, !.s = a.stepNbr,
                              !.fNext = fgen(a.scale, a.stepNbr, a.fStart,
                                             a.fStop, a.nSteps)]
    /\ op' = "scale" /\ pc' = "ret"
    /\ pulses' = 0 /\ sleeps' = 0 /\ last' = NoCall
    /\ UNCHANGED << birds, voice, concert, prof, pin, phase, ok, tally >>

ScaleReturn ==
    /\ op = "scale" /\ pc = "ret"
    /\ op' = "idle" /\ pc' = "idle"
    /\ eng' = NoEng
    /\ NoDriverCall
    /\ UNCHANGED << birds, voice, concert, prof, tally >>

\* a trap restarts the board: the constructor runs again
Reboot ==
    /\ op = "fault"
    /\ birds' = Registry
    /\ op' = "idle" /\ pc' = "idle"
    /\ eng' = NoEng /\ voice' = NoVoice /\ concert' = NoConcert /\ prof' = NoProf
    /\ pin' = FALSE /\ phase' = "idle" /\ ok' = TRUE /\ last' = NoCall
    /\ pulses' = 0 /\ sleeps' = 0 /\ tally' = NoTally

Next ==
    \/ ChirpCall \/ ChirpRep \/ ChirpStep \/ ChirpDelay
    \/ PhaserCall \/ PhaserRep \/ PhaserStep \/ PhaserDelay
    \/ ProfileCall \/ ProfileReturn
    \/ BirdVoiceCall \/ WrapperCall \/ VoiceLookup \/ VoiceDelay
    \/ BirdConcertCall \/ ConcertIter \/ ConcertDelay
    \/ DispatchReturn
    \/ Reboot
    \/ BuzLoop \/ BuzHigh \/ BuzSleepOn \/ BuzLow \/ BuzSleepOff
    \/ EngineReturn
    \/ ScaleCall \/ ScaleReturn

Spec == Init /\ [][Next]_vars

(***************************************************************************)
(* Properties.                                                             *)
(***************************************************************************)
InPulse == pc \in {"buz", "high", "usOn", "low", "usOff"}

\* the frequency of step s of the stepped chirp() call
StepFreq(s) == fgen(eng.a.scale, s, eng.a.fStart, eng.a.fStop, eng.a.nSteps)

\* every step of the stepped chirp() call has a frequency f > 0
AllStepsPositive ==
    \A s \in 0 .. eng.a.nSteps : StepFreq(s).k = "fin" /\ StepFreq(s).num > 0

\* C1: a chirp() call with nSteps, nPeriods, nChirps >= 0 makes nChirps
\* repetitions; each is, for s = 0 .. nSteps in ascending order, nPeriods
\* pulses of the (tOn, tOff) of step s, then one delay(msPause): at every
\* point of the call the pulses completed are those of the n finished
\* repetitions, the s finished steps and the k finished periods, the delay()
\* calls are the n finished repetitions, a delay() comes only after the last
\* step, and the call returns after nChirps * (nSteps + 1) * nPeriods pulses
\* and nChirps delays, which is what ChirpRun computes for the call.
C1_ChirpSequence ==
    op = "chirp" =>
      LET a == eng.a
          perRep == (a.nSteps + 1) * a.nPeriods
      IN /\ sleeps = eng.n
         /\ eng.n <= a.nChirps
         /\ pc \in {"rep", "ret"} => pulses = eng.n * perRep
         /\ pc \in {"step", "delay"} =>
              pulses = eng.n * perRep + eng.s * a.nPeriods
         /\ pc = "delay" => eng.s = a.nSteps + 1
         /\ InPulse =>
              /\ eng.s \in 0 .. a.nSteps
              /\ eng.k \in 0 .. a.nPeriods
              /\ pulses = eng.n * perRep + eng.s * a.nPeriods + eng.k
              /\ << eng.tOn, eng.tOff >> \in ChirpDurations(StepFreq(eng.s), a.duty)
         /\ pc = "low" => last = [call |-> "us", arg |-> eng.tOn, by |-> "chirp"]
         /\ (pc = "buz" /\ eng.k > 0) =>
              last = [call |-> "us", arg |-> eng.tOff, by |-> "chirp"]
         /\ last.call = "ms" =>
              last = [call |-> "ms", arg |-> a.msPause, by |-> op]
         /\ (pc = "rep" /\ eng.n > 0) => last.call = "ms"
         /\ pc = "ret" =>
              /\ pulses = a.nChirps * (a.nSteps + 1) * a.nPeriods
              /\ sleeps = a.nChirps
              /\ [pulses |-> pulses, sleeps |-> sleeps]
                    = ChirpRun(a.nSteps, a.nPeriods, a.nChirps)

C1_Witness ==
    /\ op = "chirp" /\ pc = "ret"
    /\ eng.a.nChirps = 2 /\ eng.a.nSteps = 2 /\ eng.a.nPeriods = 2
    /\ pulses = 12 /\ sleeps = 2
    /\ last = [call |-> "ms", arg |-> 20, by |-> "chirp"]

\* C2: the driver calls of every operation form only the pulse
\* digitalWrite(HIGH), delayMicroseconds(tOn), digitalWrite(LOW),
\* delayMicroseconds(tOff): the pin is high only from the digitalWrite(HIGH)
\* to the digitalWrite(LOW) of a pulse, the sleep in between being tOn, and it
\* is low, between pulses, at every delay() and when the operation returns.
C2_PulsePattern ==
    /\ ok
    /\ pin => (op \in {"chirp", "phaser"} /\ pc \in {"usOn", "low"})
    /\ pin <=> phase \in {"high", "on"}
    /\ (op \in {"chirp", "phaser"} /\ pc = "low") =>
          last = [call |-> "us", arg |-> eng.tOn, by |-> op]
    /\ (op \in {"chirp", "phaser"} /\ pc = "usOn") => last.call = "high"
    /\ (op \in {"chirp", "phaser"} /\ pc = "usOff") => last.call = "low"
    /\ last.call = "ms" => (~pin /\ phase = "idle")
    /\ pc \in {"ret", "idle", "profile", "iter", "lookup", "voiceDelay",
               "concertDelay"} => (~pin /\ phase = "idle")

C2_Witness ==
    /\ op = "phaser" /\ pc = "low" /\ pin /\ ok
    /\ eng.tOn > 0 /\ pulses > 0 /\ sleeps > 0

\* C3 as claimed: with every step frequency f > 0 and 1 <= duty <= 99, at
\* every step tOn + tOff equals the period 1000000 / f exactly.
C3_SumIsPeriod ==
    (op = "chirp" /\ InPulse /\ eng.a.duty \in 1 .. 99 /\ AllStepsPositive) =>
       (eng.tOn + eng.tOff) * StepFreq(eng.s).num = Million * StepFreq(eng.s).den

\* C3, amended: with every step frequency f > 0 and 1 <= duty <= 99, at every
\* step tOn is the period 1000000 / f times duty / 100 truncated to whole
\* microseconds, and tOn + tOff is the period truncated to whole
\* microseconds: the sum falls short of the period by less than 1.
C3_SumIsTruncatedPeriod ==
    (op = "chirp" /\ InPulse /\ eng.a.duty \in 1 .. 99 /\ AllStepsPositive) =>
       LET f == StepFreq(eng.s)
           sum == eng.tOn + eng.tOff
       IN /\ sum * f.num <= Million * f.den
          /\ Million * f.den < (sum + 1) * f.num
          /\ eng.tOn * 100 * f.num <= Million * f.den * eng.a.duty
          /\ Million * f.den * eng.a.duty < (eng.tOn + 1) * 100 * f.num

C3_Witness ==
    /\ op = "chirp" /\ pc = "usOff" /\ eng.a.duty = 99 /\ AllStepsPositive
    /\ StepFreq(eng.s) = Fin(3000, 1)
    /\ eng.tOn = 330 /\ eng.tOff = 3

\* C4: with duty = 50 and a positive period, tOn and tOff differ by at most
\* one microsecond at every step.
C4_HalfDuty ==
    (op = "chirp" /\ InPulse /\ eng.a.duty = 50
       /\ StepFreq(eng.s).k = "fin" /\ StepFreq(eng.s).num > 0) =>
       eng.tOff - eng.tOn \in {-1, 0, 1}

C4_Witness ==
    /\ op = "chirp" /\ pc = "usOn" /\ eng.a.duty = 50
    /\ StepFreq(eng.s) = Fin(3000, 1)
    /\ eng.tOn = 166 /\ eng.tOff = 167

\* C5: a phaser() call with freq > 0 and 0 <= dutyStart <= dutyEnd <= 100
\* visits, in each of its nChirps repetitions, the duty values dutyStart,
\* dutyStart + 1, ..., dutyEnd in that order, dutyEnd - dutyStart + 1 of them,
\* with nPeriods pulses for each, and makes one delay(msPause) after the
\* sweep of the repetition.
C5_PhaserSequence ==
    (op = "phaser" /\ eng.a.freq > 0 /\ 0 <= eng.a.dutyStart
       /\ eng.a.dutyStart <= eng.a.dutyEnd /\ eng.a.dutyEnd <= 100) =>
      LET a == eng.a
          settings == a.dutyEnd - a.dutyStart + 1
          perRep == settings * a.nPeriods
      IN /\ sleeps = eng.n
         /\ eng.n <= a.nChirps
         /\ pc \in {"rep", "ret"} => pulses = eng.n * perRep
         /\ pc \in {"step", "delay"} =>
              pulses = eng.n * perRep + (eng.s - a.dutyStart) * a.nPeriods
         /\ pc = "delay" => eng.s = a.dutyEnd + 1
         /\ InPulse =>
              /\ eng.s \in a.dutyStart .. a.dutyEnd
              /\ eng.k \in 0 .. a.nPeriods
              /\ pulses = eng.n * perRep + (eng.s - a.dutyStart) * a.nPeriods + eng.k
         /\ last.call = "ms" =>
              last = [call |-> "ms", arg |-> a.msPause, by |-> op]
         /\ (pc = "rep" /\ eng.n > 0) => last.call = "ms"
         /\ pc = "ret" =>
              /\ pulses = a.nChirps * settings * a.nPeriods
              /\ sleeps = a.nChirps
              /\ [pulses |-> pulses, sleeps |-> sleeps]
                    = PhaserRun(a.nPeriods, a.dutyStart, a.dutyEnd, a.nChirps)

C5_Witness ==
    /\ op = "phaser" /\ pc = "ret"
    /\ eng.a.freq = 3000 /\ eng.a.dutyStart = 98 /\ eng.a.dutyEnd = 100
    /\ eng.a.nChirps = 2 /\ eng.a.nPeriods = 2
    /\ pulses = 12 /\ sleeps = 2

\* C6: for phaser() with freq >= 1 and a duty value d of 0 .. 100, with
\* p = 1000000 / freq in integer division, tOn = p * d / 100 in integer
\* division and tOff = p - tOn, so tOn + tOff = p, d = 0 gives (0, p) and
\* d = 100 gives (p, 0); phaser(1000, 5, 0, 100, 1, 0) has the extremes
\* (0, 1000) and (1000, 0).
C6_PhaserDurations ==
    (op = "phaser" /\ eng.a.freq >= 1 /\ InPulse /\ eng.s \in 0 .. 100) =>
      LET d == eng.s
          scenario == [freq |-> 1000, nPeriods |-> 5, dutyStart |-> 0,
                       dutyEnd |-> 100, nChirps |-> 1, msPause |-> 0]
      IN /\ eng.p * eng.a.freq <= Million
         /\ Million < (eng.p + 1) * eng.a.freq
         /\ eng.tOn * 100 <= eng.p * d
         /\ eng.p * d < (eng.tOn + 1) * 100
         /\ eng.tOn + eng.tOff = eng.p
         /\ d = 0 => (eng.tOn = 0 /\ eng.tOff = eng.p)
         /\ d = 100 => (eng.tOn = eng.p /\ eng.tOff = 0)
         /\ (eng.a = scenario /\ d = 0) => << eng.tOn, eng.tOff >> = << 0, 1000 >>
         /\ (eng.a = scenario /\ d = 100) => << eng.tOn, eng.tOff >> = << 1000, 0 >>

C6_Witness ==
    /\ op = "phaser" /\ pc = "low" /\ pin
    /\ eng.a = [freq |-> 1000, nPeriods |-> 5, dutyStart |-> 0,
                dutyEnd |-> 100, nChirps |-> 1, msPause |-> 0]
    /\ eng.s = 100 /\ eng.tOn = 1000 /\ eng.tOff = 0
    /\ pulses = 500

\* C7 as claimed: birdVoice with birdNbr outside 0 .. 14 fails without a
\* driver call: no profile runs and no digitalWrite, delayMicroseconds or
\* delay is issued.
C7_OutOfRangeSilent ==
    (op = "birdVoice" /\ voice.birdNbr \notin 0 .. NbrBirds - 1) =>
       /\ prof = NoProf
       /\ last = NoCall /\ pulses = 0 /\ sleeps = 0
       /\ tally.runs = 0 /\ tally.pauses = 0

\* the profile each id names: bird0 .. bird10, cuckoo, raven, chaffinch,
\* blackbird
Named ==
    << "_bird0", "_bird1", "_bird2", "_bird3", "_bird4", "_bird5", "_bird6",
       "_bird7", "_bird8", "_bird9", "_bird10", "_cuckoo", "_raven",
       "_chaffinch", "_blackbird" >>

\* C8: for every id of 0 .. 14 birdVoice(id, msPause) runs the one profile
\* the constructor registered at id (fifteen distinct profiles, bird0 ..
\* bird10 at 0 .. 10, cuckoo 11, raven 12, chaffinch 13, blackbird 14, the
\* registry never changing) and then makes one delay(msPause), its last
\* driver call; cuckoo(), raven(), chaffinch(), blackbird() are
\* birdVoice(11 .. 14, 20).
C8_VoiceRunsRegistered ==
    /\ DOMAIN birds = 0 .. 14
    /\ \A id \in 0 .. 14 : birds[id] = Named[id + 1]
    /\ Cardinality({ birds[id] : id \in 0 .. 14 }) = 15
    /\ (op = "birdVoice" /\ voice.birdNbr \in 0 .. 14) =>
         /\ pc = "lookup" => (prof = NoProf /\ tally.runs = 0)
         /\ pc \in {"profile", "voiceDelay", "ret"} =>
              /\ prof.name = Named[voice.birdNbr + 1]
              /\ tally.runs = 1
         /\ pc = "profile" => prof.idx \in 1 .. Len(Script(prof.name)) + 1
         /\ pc /= "ret" => (tally.pauses = 0 /\ last.by /= "birdVoice")
         /\ pc = "ret" =>
              /\ tally.pauses = 1
              /\ last = [call |-> "ms", arg |-> voice.msPause, by |-> "birdVoice"]
         /\ voice.via = "cuckoo" => (voice.birdNbr = 11 /\ voice.msPause = 20)
         /\ voice.via = "raven" => (voice.birdNbr = 12 /\ voice.msPause = 20)
         /\ voice.via = "chaffinch" => (voice.birdNbr = 13 /\ voice.msPause = 20)
         /\ voice.via = "blackbird" => (voice.birdNbr = 14 /\ voice.msPause = 20)
    /\ (op = "birdVoice" /\ voice.via /= "birdVoice") => voice.birdNbr \in 11 .. 14

C8_Witness ==
    /\ op = "birdVoice" /\ pc = "ret" /\ voice.via = "raven"
    /\ prof.name = "_raven" /\ prof.from = "birdVoice"
    /\ tally.runs = 1 /\ tally.calls = 1 /\ tally.pauses = 1
    /\ last = [call |-> "ms", arg |-> 20, by |-> "birdVoice"]

\* C9: birdConcert(msPause) makes 15 iterations; each draws one id, always in
\* 0 .. 14, and runs the profile of that id at once, so that draws and
\* profiles run go together; no delay of birdVoice comes between the
\* profiles, and delay(msPause) is made once, after the last profile.
C9_ConcertSequence ==
    op = "birdConcert" =>
       /\ concert.i \in 0 .. 15
       /\ tally.draws = tally.runs
       /\ pc = "iter" => tally.draws = concert.i
       /\ pc = "profile" =>
            /\ concert.i < 15
            /\ tally.draws = concert.i + 1
            /\ concert.b \in 0 .. 14
            /\ prof.name = Named[concert.b + 1]
            /\ prof.from = "birdConcert"
       /\ pc \in {"concertDelay", "ret"} =>
            (concert.i = 15 /\ tally.draws = 15 /\ tally.runs = 15)
       /\ last.by /= "birdVoice"
       /\ pc /= "ret" => (tally.pauses = 0 /\ last.by /= "birdConcert")
       /\ pc = "ret" =>
            /\ tally.pauses = 1
            /\ last = [call |-> "ms", arg |-> concert.msPause, by |-> "birdConcert"]

C9_Witness ==
    /\ op = "birdConcert" /\ pc = "ret"
    /\ concert.i = 15 /\ tally.draws = 15 /\ tally.runs = 15 /\ tally.pauses = 1
    /\ prof.name = "_bird3"
    /\ last = [call |-> "ms", arg |-> 20, by |-> "birdConcert"]

\* the stepped engine call has invalid inputs
InvalidChirp ==
    \/ eng.a.fStart <= 0 \/ eng.a.fStop <= 0
    \/ eng.a.duty \notin 1 .. 99
    \/ ~AllStepsPositive

InvalidPhaser ==
    \/ eng.a.freq = 0
    \/ eng.a.dutyStart > eng.a.dutyEnd
    \/ eng.a.dutyStart \notin 0 .. 100 \/ eng.a.dutyEnd \notin 0 .. 100

\* C10 as claimed: a chirp() or phaser() call with invalid inputs (a
\* non-positive frequency, a duty outside 1 .. 99, dutyStart > dutyEnd, a duty
\* bound outside 0 .. 100, a scale value that is not positive) stops before any
\* pulse: digitalWrite(HIGH) is never issued and the pin stays low.
C10_InvalidStopsBeforePulse ==
    ((op = "chirp" /\ InvalidChirp) \/ (op = "phaser" /\ InvalidPhaser)) =>
       /\ ~pin /\ phase = "idle"
       /\ pulses = 0
       /\ last.call \notin {"high", "low", "us"}

\* two double values are the same finite number
SameValue(x, y) ==
    x.k = "fin" /\ y.k = "fin" /\ x.num * y.den = y.num * x.den

\* C11 as claimed: for each of the eight generators and a, b > 0, n >= 1,
\* scale(0, a, b, n) = a; and linear(n, a, b, n) = b, chromatic(n, a, b, n) = b.
C11_StepZeroIsStart ==
    (op = "scale" /\ eng.a.nSteps >= 1 /\ eng.a.fStart > 0 /\ eng.a.fStop > 0) =>
       /\ eng.a.stepNbr = 0 => SameValue(eng.fNext, Fin(eng.a.fStart, 1))
       /\ (eng.a.scale \in {"linearScale", "chromaticScale"}
             /\ eng.a.stepNbr = eng.a.nSteps) =>
              SameValue(eng.fNext, Fin(eng.a.fStop, 1))

\* C11, amended: for a, b > 0 and n >= 1, scale(0, a, b, n) = a for linear,
\* chromatic, sinePi, cosinePi, cosine2Pi, atanPi and atan2Pi, while
\* sine2Pi(0, a, b, n) is the mean (a + b) / 2, which is a only when a = b;
\* and linear(n, a, b, n) = b, chromatic(n, a, b, n) = b.
C11_BoundaryLaws ==
    (op = "scale" /\ eng.a.nSteps >= 1 /\ eng.a.fStart > 0 /\ eng.a.fStop > 0) =>
       /\ (eng.a.stepNbr = 0 /\ eng.a.scale /= "sine2PiScale") =>
              SameValue(eng.fNext, Fin(eng.a.fStart, 1))
       /\ (eng.a.stepNbr = 0 /\ eng.a.scale = "sine2PiScale") =>
              /\ SameValue(eng.fNext, Fin(eng.a.fStart + eng.a.fStop, 2))
              /\ SameValue(eng.fNext, Fin(eng.a.fStart, 1))
                    <=> eng.a.fStart = eng.a.fStop
       /\ (eng.a.scale \in {"linearScale", "chromaticScale"}
             /\ eng.a.stepNbr = eng.a.nSteps) =>
              SameValue(eng.fNext, Fin(eng.a.fStop, 1))

C11_Witness ==
    /\ op = "scale" /\ pc = "ret"
    /\ eng.a = [scale |-> "sine2PiScale", stepNbr |-> 0, fStart |-> 1000,
                fStop |-> 4000, nSteps |-> 10]
    /\ SameValue(eng.fNext, Fin(2500, 1))

\* the (tOn, tOff) of step s of the stepped chirp() call, when every
\* conversion of the step is defined
StepPair(s) == CHOOSE d \in ChirpDurations(StepFreq(s), eng.a.duty) : TRUE

\* C12 as claimed: chirp(1000.0, 4000.0, 10, 1, 1, chromatic, 50, 0) emits 11
\* pulses; the (tOn, tOff) of a step differs from that of every earlier step
\* and its period tOn + tOff is smaller; the period is 1000 at step 0 and 250
\* at step 10; and tOn = tOff at every step.
C12_ScenarioEqualHalves ==
    (op = "chirp" /\ eng.a = ChirpScenario) =>
       /\ InPulse =>
            /\ eng.tOn = eng.tOff
            /\ \A t \in 0 .. eng.s - 1 :
                  /\ StepPair(t) /= << eng.tOn, eng.tOff >>
                  /\ StepPair(t)[1] + StepPair(t)[2] > eng.tOn + eng.tOff
            /\ eng.s = 0 => eng.tOn + eng.tOff = 1000
            /\ eng.s = 10 => eng.tOn + eng.tOff = 250
       /\ pc = "ret" => pulses = 11

\* C12, amended: the same call emits 11 pulses, one per step, with 11
\* pairwise distinct (tOn, tOff) whose periods tOn + tOff decrease strictly
\* from 1000 at step 0 to 250 at step 10; tOn is half the period truncated
\* and tOff the rest, so tOff - tOn is 0 or 1 at every step: 500 and 500 at
\* step 0, 378 and 379 at step 2, 125 and 125 at step 10.
C12_ScenarioTruncatedHalves ==
    (op = "chirp" /\ eng.a = ChirpScenario) =>
       /\ InPulse =>
            /\ eng.tOff - eng.tOn \in {0, 1}
            /\ << eng.tOn, eng.tOff >> = StepPair(eng.s)
            /\ \A t \in 0 .. eng.s - 1 :
                  /\ StepPair(t) /= << eng.tOn, eng.tOff >>
                  /\ StepPair(t)[1] + StepPair(t)[2] > eng.tOn + eng.tOff
            /\ eng.s = 0 => << eng.tOn, eng.tOff >> = << 500, 500 >>
            /\ eng.s = 2 => << eng.tOn, eng.tOff >> = << 378, 379 >>
            /\ eng.s = 10 => << eng.tOn, eng.tOff >> = << 125, 125 >>
            /\ pulses = eng.s + eng.k
       /\ pc = "ret" => pulses = 11

C12_Witness ==
    /\ op = "chirp" /\ eng.a = ChirpScenario /\ pc = "usOff"
    /\ eng.s = 10 /\ eng.tOn = 125 /\ eng.tOff = 125 /\ pulses = 10

\* C13 as claimed: a chirp() call with nSteps = 0, fStart, fStop > 0 and
\* 1 <= duty <= 99 plays one frequency point, fStop, with a positive period,
\* nPeriods times per repetition, whatever the generator.
C13_SinglePoint ==
    (op = "chirp" /\ eng.a.nSteps = 0 /\ eng.a.fStart > 0 /\ eng.a.fStop > 0
       /\ eng.a.duty \in 1 .. 99) =>
       /\ InPulse =>
            /\ eng.s = 0
            /\ SameValue(StepFreq(0), Fin(eng.a.fStop, 1))
            /\ eng.tOn + eng.tOff > 0
            /\ << eng.tOn, eng.tOff >> \in ChirpDurations(Fin(eng.a.fStop, 1), eng.a.duty)
       /\ pc = "ret" => pulses = eng.a.nChirps * eng.a.nPeriods

\* the engine calls of a script, and the calls that are not engine calls
EngineCalls(script) ==
    { i \in 1 .. Len(script) : script[i].fn \in {"chirp", "phaser"} }

OwnCalls(script) == { i \in 1 .. Len(script) : script[i].fn = "delay" }

\* C14 as claimed: each of the 15 profiles, whatever the draws, makes between
\* 1 and 3 chirp()/phaser() calls in a fixed order and no driver call of its
\* own: while it runs, the calls made are the first of its script, never more
\* than 3, none of them a delay(), and when it has returned at least 1.
C14_OneToThreeCalls ==
    (op \in {"birdVoice", "birdConcert"} /\ prof.name /= "none") =>
       /\ tally.extra = 0
       /\ tally.calls \in 0 .. 3
       /\ pc = "profile" => tally.calls + tally.extra = prof.idx - 1
       /\ prof.idx = 0 =>
            /\ tally.calls \in 1 .. 3
            /\ tally.calls = Len(Script(prof.name))
            /\ last.by /= "profile"

\* C14, amended: each profile other than cuckoo, whatever the draws, makes
\* between 1 and 3 chirp()/phaser() calls in a fixed order and no driver call
\* of its own; cuckoo makes 8 chirp() calls (four times the pair cuc, koo) and
\* then one delay(300) of its own, its last driver call.
C14_ProfileCalls ==
    (op \in {"birdVoice", "birdConcert"} /\ prof.name /= "none") =>
       LET script == Script(prof.name)
           made == IF prof.idx = 0 THEN Len(script) ELSE prof.idx - 1
           running == pc \in {"profile", "voiceDelay", "iter"} /\ tally.calls > 0
       IN /\ tally.calls = Cardinality(EngineCalls(script) \cap (1 .. made))
          /\ tally.extra = Cardinality(OwnCalls(script) \cap (1 .. made))
          /\ prof.name /= "_cuckoo" =>
               /\ tally.extra = 0 /\ tally.calls \in 0 .. 3
               /\ running => last.by \in {"chirp", "phaser"}
               /\ prof.idx = 0 => tally.calls \in 1 .. 3
          /\ prof.name = "_cuckoo" =>
               /\ tally.calls <= 8
               /\ tally.extra = 1 => tally.calls = 8
               /\ running => (tally.extra = 1 <=> last.by = "profile")
               /\ prof.idx = 0 =>
                    /\ tally.calls = 8 /\ tally.extra = 1
                    /\ pc = "voiceDelay" =>
                         last = [call |-> "ms", arg |-> CuckooTail, by |-> "profile"]

C14_Witness ==
    /\ op = "birdVoice" /\ pc = "voiceDelay" /\ voice.via = "cuckoo"
    /\ prof.name = "_cuckoo" /\ prof.idx = 0
    /\ tally.calls = 8 /\ tally.extra = 1
    /\ last = [call |-> "ms", arg |-> 300, by |-> "profile"]

AtanScales == {"atanPiScale", "atan2PiScale"}

\* C15 as claimed: for atanPi and atan2Pi, fStart /= fStop and nSteps >= 1,
\* the value at the last step is not fStop.
C15_AtanStopsShort ==
    (op = "scale" /\ eng.a.scale \in AtanScales /\ eng.a.nSteps >= 1
       /\ eng.a.fStart /= eng.a.fStop /\ eng.a.stepNbr = eng.a.nSteps) =>
       ~SameValue(eng.fNext, Fin(eng.a.fStop, 1))

\* C15, amended: for atanPi and atan2Pi, fStart /= fStop and nSteps >= 1,
\* the value at the last step is fStop, the factor k being the frequency
\* range over atan(PI), respectively atan(TWO_PI); the steps between the first
\* and the last lie strictly between fStart and fStop.
C15_AtanReachesStop ==
    (op = "scale" /\ eng.a.scale \in AtanScales /\ eng.a.nSteps >= 1
       /\ eng.a.fStart /= eng.a.fStop) =>
       LET f == eng.fNext
           lo == IF eng.a.fStart < eng.a.fStop THEN eng.a.fStart ELSE eng.a.fStop
           hi == IF eng.a.fStart < eng.a.fStop THEN eng.a.fStop ELSE eng.a.fStart
       IN /\ f.k = "fin"
          /\ eng.a.stepNbr = eng.a.nSteps => SameValue(f, Fin(eng.a.fStop, 1))
          /\ (0 < eng.a.stepNbr /\ eng.a.stepNbr < eng.a.nSteps) =>
               (lo * f.den < f.num /\ f.num < hi * f.den)

C15_Witness ==
    /\ op = "scale" /\ pc = "ret"
    /\ eng.a = [scale |-> "atanPiScale", stepNbr |-> 1, fStart |-> 1000,
                fStop |-> 2000, nSteps |-> 1]
    /\ SameValue(eng.fNext, Fin(2000, 1))

\* the arguments of a call of a script
CallArgs(c) ==
    CASE c.fn = "chirp" ->
           {c.fStart, c.fStop, c.nSteps, c.nPeriods, c.nChirps, c.duty, c.msPause}
      [] c.fn = "phaser" ->
           {c.freq, c.nPeriods, c.dutyStart, c.dutyEnd, c.nChirps, c.msPause}
      [] c.fn = "delay" -> {c.msPause}

\* C16 as claimed: every random(lo, hi) a profile has made for a call has
\* lo <= hi.
C16_DrawsWellFormed ==
    (op \in {"birdVoice", "birdConcert"} /\ pc = "profile" /\ prof.idx > 1) =>
       \A x \in CallArgs(Script(prof.name)[prof.idx - 1]) :
          x.rnd => x.lo <= x.hi

====
